---- MODULE Spec2Model ----
(***************************************************************************)
(* A model of pytablewriter's MarkdownTableWriter                          *)
(* (src/pytablewriter/writer/text/_markdown.py): the flavor resolver       *)
(* normalize_md_flavor, the cell and header-separator renderers, and the   *)
(* write sequence of write_table / _write_table_iter.                      *)
(*                                                                         *)
(* Text is modelled as a sequence of one-character strings, so that        *)
(* strip, upper, replace and padding are computed character by character.  *)
(* Every call leaves a log of what it did, in order: the calls that change *)
(* the writer (clear_preprocess, set_flavor, create_styler, preprocess)    *)
(* and every line it wrote, tagged with the statement that wrote it.       *)
(***************************************************************************)
EXTENDS Integers, Sequences, FiniteSets, TLC

\* ------------------------------------------------------------------ bounds

\* Largest margin (spaces on each side of a cell) the model draws.
MaxMargin == 1
\* Largest indent level the model draws.
MaxIndent == 1
\* Largest chunk length write_table_iter splits the rows into.
MaxChunk == 2
\* Longest generated flavor string.
MaxFlavorLen == 3

\* ------------------------------------------------------------------- text

LowerCase == <<"a","b","c","d","e","f","g","h","i","j","k","l","m",
               "n","o","p","q","r","s","t","u","v","w","x","y","z">>
UpperCase == <<"A","B","C","D","E","F","G","H","I","J","K","L","M",
               "N","O","P","Q","R","S","T","U","V","W","X","Y","Z">>
Digits == {"0","1","2","3","4","5","6","7","8","9"}

Range(s) == {s[i] : i \in DOMAIN s}

AlnumChars == Range(LowerCase) \cup Range(UpperCase) \cup Digits

IsAlnum(c) == c \in AlnumChars

IsSpace(c) == c \in {" ", "\t", "\n"}

\* str.upper(), one character.
UpperOf == [c \in Range(LowerCase) |->
               UpperCase[CHOOSE i \in DOMAIN LowerCase : LowerCase[i] = c]]

UpperChar(c) == IF c \in DOMAIN UpperOf THEN UpperOf[c] ELSE c

\* str.upper()
upper(s) == [i \in DOMAIN s |-> UpperChar(s[i])]

RECURSIVE lstrip(_)
lstrip(s) == IF s # <<>> /\ IsSpace(Head(s)) THEN lstrip(Tail(s)) ELSE s

RECURSIVE rstrip(_)
rstrip(s) ==
    IF s # <<>> /\ IsSpace(s[Len(s)]) THEN rstrip(SubSeq(s, 1, Len(s) - 1)) ELSE s

\* str.strip()
strip(s) == rstrip(lstrip(s))

\* pathvalidate.replace_symbol(text, replacement): every character that is
\* neither a letter nor a digit is replaced.
replace_symbol(s, r) == [i \in DOMAIN s |-> IF IsAlnum(s[i]) THEN s[i] ELSE r]

StartsWith(s, p) == Len(p) <= Len(s) /\ SubSeq(s, 1, Len(p)) = p

\* str.replace(old, new): every non-overlapping occurrence, left to right.
RECURSIVE str_replace(_, _, _)
str_replace(s, old, new) ==
    IF s = <<>> THEN <<>>
    ELSE IF StartsWith(s, old)
         THEN new \o str_replace(SubSeq(s, Len(old) + 1, Len(s)), old, new)
         ELSE <<Head(s)>> \o str_replace(Tail(s), old, new)

\* "c" * n
Repeat(c, n) == [i \in 1..n |-> c]

\* str.join over a list of texts.
RECURSIVE join(_, _)
join(items, sep) ==
    IF items = <<>> THEN <<>>
    ELSE IF Len(items) = 1 THEN items[1]
         ELSE items[1] \o sep \o join(Tail(items), sep)

\* --------------------------------------------------------- flavor resolver

\* class MarkdownFlavor(Enum): the members, by name.
MarkdownFlavor == {"COMMON_MARK", "GITHUB", "GFM", "JEKYLL", "KRAMDOWN"}

\* The name of a member, as text.
MemberName(m) ==
    CASE m = "COMMON_MARK" -> <<"C","O","M","M","O","N","_","M","A","R","K">>
      [] m = "GITHUB" -> <<"G","I","T","H","U","B">>
      [] m = "GFM" -> <<"G","F","M">>
      [] m = "JEKYLL" -> <<"J","E","K","Y","L","L">>
      [] m = "KRAMDOWN" -> <<"K","R","A","M","D","O","W","N">>

DEFAULT_FLAVOR == "COMMON_MARK"

\* A value a caller passes as flavor: None, a member, or a str.
NoneValue == [kind |-> "none", member |-> "", text |-> <<>>]
EnumValue(m) == [kind |-> "enum", member |-> m, text |-> <<>>]
StrValue(s) == [kind |-> "str", member |-> "", text |-> s]

\* normalize_enum(value, MarkdownFlavor, default=...): None gives the default,
\* a member is returned as it is, a str is looked up by member name, and a str
\* that names no member falls back to the default.
normalize_enum(value, default) ==
    CASE value.kind = "none" -> default
      [] value.kind = "enum" -> value.member
      [] value.kind = "str" ->
            LET key == upper(replace_symbol(strip(value.text), "_"))
            IN IF \E m \in MarkdownFlavor : MemberName(m) = key
               THEN CHOOSE m \in MarkdownFlavor : MemberName(m) = key
               ELSE default

\* normalize_md_flavor, with the alias collapse left out.
normalize_md_flavor_no_alias(flavor) ==
    LET f == IF flavor.kind = "str"
             THEN StrValue(str_replace(upper(replace_symbol(strip(flavor.text), "_")),
                                       <<"C","O","M","M","O","N","M","A","R","K">>,
                                       MemberName("COMMON_MARK")))
             ELSE flavor
    IN normalize_enum(f, DEFAULT_FLAVOR)

\* normalize_md_flavor(flavor)
normalize_md_flavor(flavor) ==
    LET f == IF flavor.kind = "str"
             THEN StrValue(str_replace(upper(replace_symbol(strip(flavor.text), "_")),
                                       <<"C","O","M","M","O","N","M","A","R","K">>,
                                       MemberName("COMMON_MARK")))
             ELSE flavor
        norm_flavor == normalize_enum(f, DEFAULT_FLAVOR)
    IN IF norm_flavor = "GITHUB" THEN "GFM"
       ELSE IF norm_flavor = "JEKYLL" THEN "KRAMDOWN"
       ELSE norm_flavor

\* ------------------------------------------------------------ writer state

VARIABLES
    flavor,          \* self.__flavor
    styler,          \* self._styler: the class of the style engine
    cache,           \* the pre-processed rendering state (_preprocess / _clear_preprocess)
    table_name,      \* self.table_name
    indent_level,    \* self._indent_level
    margin,          \* self.margin
    is_write_null_line_after_table,
    headers,         \* self.headers
    value_matrix,    \* self.value_matrix
    column_dp_list,  \* self._column_dp_list: per column, padding length and alignment
    log,             \* what the last call did and wrote, in order
    op,              \* the last call: "init", "write_table" or "write_table_iter"
    kwargs,          \* the keyword arguments of the last call
    pre,             \* flavor and cache state the last call started from
    prev             \* the call before the last: what it was and the text it wrote

vars == <<flavor, styler, cache, table_name, indent_level, margin,
          is_write_null_line_after_table, headers, value_matrix, column_dp_list,
          log, op, kwargs, pre, prev>>

Align == {"LEFT", "RIGHT", "CENTER"}

\* dp_extractor.min_column_width
min_column_width == 3

\* A cell value: a str, or None.
Str(s) == [null |-> FALSE, text |-> s]
None == [null |-> TRUE, text |-> <<>>]

\* The cache with nothing pre-processed.
NoCache == [done |-> FALSE, headers |-> <<>>, value_matrix |-> <<>>,
            flavor |-> "", styler |-> ""]

\* One entry of the log: a line written (a: the statement that wrote it), or a
\* call that changed the writer (a: its argument).
Line(stage, text) == [ev |-> "line", a |-> stage, text |-> text]
Ev(e, a) == [ev |-> e, a |-> a, text |-> <<>>]

\* The writer object the methods work on.
Self == [flavor |-> flavor, styler |-> styler, cache |-> cache,
         value_matrix |-> value_matrix, log |-> <<>>]

\* self._write_line(text)
write_line(self, stage, text) == [self EXCEPT !.log = Append(@, Line(stage, text))]

\* ------------------------------------------------------------ row renderer

\* str.replace("|", "\\|") applied to the first bar only.
escape_first_bar_only(value) ==
    IF \E i \in DOMAIN value : value[i] = "|"
    THEN LET k == CHOOSE i \in DOMAIN value :
                      value[i] = "|" /\ \A j \in 1..(i - 1) : value[j] # "|"
         IN SubSeq(value, 1, k - 1) \o <<"\\", "|">> \o SubSeq(value, k + 1, Len(value))
    ELSE value

\* MarkdownTableWriter.__escape_vertical_bar_char
escape_vertical_bar_char(value) == str_replace(value, <<"|">>, <<"\\", "|">>)

\* The generic text-table item formatter: the value (None as the empty string)
\* padded to the column's padding length on the side its alignment leaves free,
\* inside the margin.
format_item(col_dp, value_dp) ==
    LET text == IF value_dp.null THEN <<>> ELSE value_dp.text
        fill == IF col_dp.padding_len > Len(text) THEN col_dp.padding_len - Len(text) ELSE 0
        lpad == CASE col_dp.align = "RIGHT" -> fill
                  [] col_dp.align = "CENTER" -> fill \div 2
                  [] OTHER -> 0
    IN Repeat(" ", margin) \o Repeat(" ", lpad) \o text
       \o Repeat(" ", fill - lpad) \o Repeat(" ", margin)

\* _to_header_item
to_header_item(col_dp, value_dp) ==
    escape_vertical_bar_char(format_item(col_dp, value_dp))

\* _to_row_item
to_row_item(col_dp, value_dp) ==
    escape_vertical_bar_char(format_item(col_dp, value_dp))

\* _get_opening_row_items
get_opening_row_items == <<>>

\* _get_header_row_separator_items with Right one dash too long.
get_header_row_separator_items_long_right ==
    [i \in DOMAIN column_dp_list |->
        LET padding_len == column_dp_list[i].padding_len
            align == column_dp_list[i].align
            separator_item ==
                IF align = "RIGHT" THEN Repeat("-", padding_len) \o <<":">>
                ELSE IF align = "CENTER"
                     THEN <<":">> \o Repeat("-", padding_len - 2) \o <<":">>
                     ELSE Repeat("-", padding_len)
        IN Repeat(" ", margin) \o separator_item \o Repeat(" ", margin)]

\* _get_header_row_separator_items
get_header_row_separator_items ==
    [i \in DOMAIN column_dp_list |->
        LET padding_len == column_dp_list[i].padding_len
            align == column_dp_list[i].align
            separator_item ==
                IF align = "RIGHT" THEN Repeat("-", padding_len - 1) \o <<":">>
                ELSE IF align = "CENTER"
                     THEN <<":">> \o Repeat("-", padding_len - 2) \o <<":">>
                     ELSE Repeat("-", padding_len)
        IN Repeat(" ", margin) \o separator_item \o Repeat(" ", margin)]

\* _get_value_row_separator_items
get_value_row_separator_items == <<>>

\* _get_closing_row_items
get_closing_row_items == <<>>

\* --------------------------------------------------------- table assembler

\* typepy.is_null_string: None, or a str that is empty or only whitespace.
is_null_string(name) == name.null \/ strip(name.text) = <<>>

\* MultiByteStrDecoder(name).unicode_str: a str is returned as it is.
unicode_str(name) == name.text

\* _clear_preprocess
clear_preprocess(self) ==
    [self EXCEPT !.cache = NoCache, !.log = Append(@, Ev("clear_preprocess", ""))]

\* _preprocess: the header and value cells are rendered once and kept until
\* the cache is cleared.
preprocess(self) ==
    IF self.cache.done THEN self
    ELSE [self EXCEPT
            !.cache = [done |-> TRUE,
                       headers |-> [j \in DOMAIN headers |->
                                       to_header_item(column_dp_list[j], headers[j])],
                       value_matrix |->
                           [i \in DOMAIN self.value_matrix |->
                               [j \in DOMAIN self.value_matrix[i] |->
                                   to_row_item(column_dp_list[j], self.value_matrix[i][j])]],
                       flavor |-> self.flavor,
                       styler |-> self.styler],
            !.log = Append(@, Ev("preprocess", self.flavor))]

\* _write_row: the items between column delimiters; no items, no line.
write_row(self, stage, items) ==
    IF items = <<>> THEN self
    ELSE write_line(self, stage, <<"|">> \o join(items, <<"|">>) \o <<"|">>)

\* The base class's header stage: the header row, then the header-separator row.
super_write_header(self) ==
    write_row(write_row(self, "header", self.cache.headers),
              "separator", get_header_row_separator_items)

\* _write_header with the Kramdown blank line written for every flavor.
write_header_always_blank(self) ==
    write_line(super_write_header(self), "header_blank", <<>>)

\* _write_header
write_header(self) ==
    LET s == super_write_header(self)
    IN IF s.flavor = "KRAMDOWN" THEN write_line(s, "header_blank", <<>>) ELSE s

\* The value rows from row i on, a value-row separator between two rows.
RECURSIVE write_value_rows(_, _)
write_value_rows(self, i) ==
    IF i > Len(self.cache.value_matrix) THEN self
    ELSE LET s == IF i = 1 THEN self
                  ELSE write_row(self, "value_separator", get_value_row_separator_items)
         IN write_value_rows(write_row(s, "row", s.cache.value_matrix[i]), i + 1)

\* The base class's _write_table: pre-process, opening row, header, value
\* rows, closing row.
super_write_table(self) ==
    LET s1 == write_row(preprocess(self), "opening", get_opening_row_items)
        s2 == write_header(s1)
        s3 == write_value_rows(s2, 1)
    IN write_row(s3, "closing", get_closing_row_items)

\* _verify_property raises EmptyTableDataError: there is no row to write.
is_empty_table_data(self) == self.value_matrix = <<>>

\* __write_chapter with indent_level '#' characters.
write_chapter_short(self) ==
    IF is_null_string(table_name) THEN self
    ELSE LET s == write_line(self, "chapter",
                      Repeat("#", indent_level) \o <<" ">> \o unicode_str(table_name))
         IN IF s.flavor = "KRAMDOWN" THEN write_line(s, "chapter_blank", <<>>) ELSE s

\* __write_chapter
write_chapter(self) ==
    IF is_null_string(table_name) THEN self
    ELSE LET s == write_line(self, "chapter",
                      Repeat("#", indent_level + 1) \o <<" ">> \o unicode_str(table_name))
         IN IF s.flavor = "KRAMDOWN" THEN write_line(s, "chapter_blank", <<>>) ELSE s

\* _create_styler testing for the alias GITHUB.
create_styler_github(self) ==
    IF self.flavor = "GITHUB" THEN "GFMarkdownStyler" ELSE "MarkdownStyler"

\* _create_styler
create_styler(self) ==
    IF self.flavor = "GFM" THEN "GFMarkdownStyler" ELSE "MarkdownStyler"

\* The keyword arguments of a call: whether "flavor" is among them, and its value.
NoKwargs == [has |-> FALSE, flavor |-> NoneValue]
FlavorKwarg(v) == [has |-> TRUE, flavor |-> v]

\* The tail of write_table with the chapter written before the table data is
\* verified.
write_table_body_chapter_first(s1) ==
    LET s2 == write_chapter(
                  [s1 EXCEPT !.styler = create_styler(s1),
                             !.log = Append(@, Ev("create_styler", create_styler(s1)))])
    IN IF is_empty_table_data(s2)
       THEN [s2 EXCEPT !.log = Append(@, Ev("done", "empty"))]
       ELSE LET s3 == super_write_table(s2)
                s4 == IF is_write_null_line_after_table
                      THEN write_line(s3, "null_line", <<>>)
                      ELSE s3
            IN [s4 EXCEPT !.log = Append(@, Ev("done", "written"))]

\* The tail of write_table with the trailing blank line written before the table.
write_table_body_null_line_first(s1) ==
    LET s2 == [s1 EXCEPT !.styler = create_styler(s1),
                         !.log = Append(@, Ev("create_styler", create_styler(s1)))]
    IN IF is_empty_table_data(s2)
       THEN [s2 EXCEPT !.log = Append(@, Ev("done", "empty"))]
       ELSE LET s3 == IF is_write_null_line_after_table
                      THEN write_line(write_chapter(s2), "null_line", <<>>)
                      ELSE write_chapter(s2)
                s4 == super_write_table(s3)
            IN [s4 EXCEPT !.log = Append(@, Ev("done", "written"))]

\* The tail of write_table, from the style engine on.
write_table_body(s1) ==
    LET s2 == IF s1.flavor \in MarkdownFlavor
              THEN [s1 EXCEPT !.styler = create_styler(s1),
                              !.log = Append(@, Ev("create_styler", create_styler(s1)))]
              ELSE s1
    IN IF is_empty_table_data(s2)
       THEN [s2 EXCEPT !.log = Append(@, Ev("done", "empty"))]
       ELSE LET s3 == super_write_table(write_chapter(s2))
                s4 == IF is_write_null_line_after_table
                      THEN write_line(s3, "null_line", <<>>)
                      ELSE s3
            IN [s4 EXCEPT !.log = Append(@, Ev("done", "written"))]

\* write_table switching the flavor without clearing the cache.
write_table_no_clear(self, kw) ==
    LET new_flavor == normalize_md_flavor(kw.flavor)
        s1 == IF kw.has /\ new_flavor # self.flavor
              THEN [self EXCEPT !.flavor = new_flavor,
                                !.log = Append(@, Ev("set_flavor", new_flavor))]
              ELSE self
    IN write_table_body(s1)

\* write_table using the flavor override for this call only.
write_table_no_persist(self, kw) ==
    LET new_flavor == normalize_md_flavor(kw.flavor)
        s1 == IF kw.has /\ new_flavor # self.flavor
              THEN LET c == clear_preprocess(self)
                   IN [c EXCEPT !.flavor = new_flavor,
                                !.log = Append(@, Ev("set_flavor", new_flavor))]
              ELSE self
    IN [write_table_body(s1) EXCEPT !.flavor = self.flavor]

\* write_table(**kwargs)
write_table(self, kw) ==
    LET new_flavor == normalize_md_flavor(kw.flavor)
        s1 == IF kw.has /\ new_flavor # self.flavor
              THEN LET c == clear_preprocess(self)
                   IN [c EXCEPT !.flavor = new_flavor,
                                !.log = Append(@, Ev("set_flavor", new_flavor))]
              ELSE self
    IN write_table_body(s1)

\* The base class's iteration: every chunk of rows becomes the table data in
\* turn and is written by write_table; the data is put back afterwards.
RECURSIVE super_write_table_iter(_, _)
super_write_table_iter(self, chunks) ==
    IF chunks = <<>>
    THEN [self EXCEPT !.value_matrix = value_matrix, !.cache = NoCache]
    ELSE super_write_table_iter(
             write_table([self EXCEPT !.value_matrix = Head(chunks), !.cache = NoCache],
                         NoKwargs),
             Tail(chunks))

\* _write_table_iter(**kwargs)
write_table_iter(self, kw, chunks) ==
    super_write_table_iter(write_chapter(self), chunks)

\* ------------------------------------------------------------------ inputs

\* The table names the model draws: None, empty, blank, and a title.
TableNames == {None, Str(<<>>), Str(<<" ">>), Str(<<"T","b","l">>)}

\* The tables the model draws: headers and rows of cell values.
EmptyTable == [headers |-> <<Str(<<"A">>)>>, value_matrix |-> <<>>]
TwoColumnTable ==
    [headers |-> <<Str(<<"A">>), Str(<<"N","a","m","e">>)>>,
     value_matrix |-> << <<Str(<<"x">>), None>> >>]
BarTable ==
    [headers |-> <<Str(<<"a","|","b">>)>>,
     value_matrix |-> << <<Str(<<"|">>)>>,
                         <<Str(<<"x","|","|","y","z">>)>>,
                         <<Str(<<"\\","|">>)>> >>]
Tables == {EmptyTable, TwoColumnTable, BarTable}

Max(a, b) == IF a >= b THEN a ELSE b

RECURSIVE MaxOver(_, _)
MaxOver(f, i) == IF i = 0 THEN 0 ELSE Max(f[i], MaxOver(f, i - 1))

\* The widest content of column j of table t.
ContentWidth(t, j) ==
    Max(Len(t.headers[j].text),
        MaxOver([i \in DOMAIN t.value_matrix |-> Len(t.value_matrix[i][j].text)],
                Len(t.value_matrix)))

\* The flavor spellings the claims name, and some that name no flavor.
FlavorStrings ==
    { <<"g","i","t","h","u","b">>, <<"G","i","t","H","u","b">>,
      <<"G","I","T","H","U","B">>, <<"j","e","k","y","l","l">>,
      <<"J","e","k","y","l","l">>, <<"c","o","m","m","o","n","m","a","r","k">>,
      <<"C","o","m","m","o","n","M","a","r","k">>,
      <<" ","K","r","a","m","d","o","w","n"," ">>,
      <<"c","o","m","m","o","n","-","m","a","r","k">>,
      <<"x","y","z","z","y">> }

\* Every text of at most MaxFlavorLen characters over a few characters, a
\* spelling of "gfm" among them.
FlavorChars == {"g", "F", "m", " "}
ShortStrings == UNION {[1..n -> FlavorChars] : n \in 0..MaxFlavorLen}

\* The flavor values a caller may pass: None, a member, a str.
FlavorValues ==
    {NoneValue} \cup {EnumValue(m) : m \in MarkdownFlavor}
    \cup {StrValue(s) : s \in FlavorStrings \cup ShortStrings}
AnyKwargs == {NoKwargs} \cup {FlavorKwarg(v) : v \in FlavorValues}

\* The keyword arguments the calls of the writer's specification draw from.
KwargsSet ==
    {NoKwargs,
     FlavorKwarg(StrValue(<<"g","i","t","h","u","b">>)),
     FlavorKwarg(StrValue(<<"J","e","k","y","l","l">>)),
     FlavorKwarg(StrValue(<<"C","o","m","m","o","n","M","a","r","k">>))}

\* The flavor keyword the constructor is given.
CtorKwargs == {NoKwargs, FlavorKwarg(EnumValue("JEKYLL"))}

\* The rows cut into chunks of n rows.
RECURSIVE Chunks(_, _)
Chunks(rows, n) ==
    IF rows = <<>> THEN <<>>
    ELSE IF Len(rows) <= n THEN <<rows>>
         ELSE <<SubSeq(rows, 1, n)>> \o Chunks(SubSeq(rows, n + 1, Len(rows)), n)

\* The text of the lines a log holds, in order.
Text(l) ==
    LET lines == SelectSeq(l, LAMBDA e : e.ev = "line")
    IN [i \in DOMAIN lines |-> lines[i].text]

\* The statements that wrote the lines a log holds, in order.
Stages(l) ==
    LET lines == SelectSeq(l, LAMBDA e : e.ev = "line")
    IN [i \in DOMAIN lines |-> lines[i].a]

\* ------------------------------------------------------------ specification

\* __init__ on the keyword arguments kw: the flavor keyword (DEFAULT_FLAVOR when
\* absent) is normalised, the base class creates the style engine, nothing is
\* pre-processed.
Construct(kw) ==
    /\ flavor = normalize_md_flavor(IF kw.has THEN kw.flavor
                                    ELSE EnumValue(DEFAULT_FLAVOR))
    /\ styler = create_styler([flavor |-> flavor])
    /\ cache = NoCache
    /\ log = <<>>
    /\ op = "init"
    /\ kwargs = kw
    /\ pre = [flavor |-> flavor, done |-> FALSE]
    /\ prev = [op |-> "none", text |-> <<>>]

\* The table t as the table data, every column as wide as its content needs
\* and no narrower than the minimum, column j aligned aligns[j].
FromTable(t, aligns) ==
    /\ headers = t.headers
    /\ value_matrix = t.value_matrix
    /\ column_dp_list =
           [j \in DOMAIN t.headers |->
               [padding_len |-> Max(min_column_width, ContentWidth(t, j)),
                align |-> aligns[j]]]

Init ==
    /\ \E kw \in CtorKwargs : Construct(kw)
    /\ table_name \in TableNames
    /\ indent_level \in 0..MaxIndent
    /\ margin \in 0..MaxMargin
    /\ is_write_null_line_after_table \in BOOLEAN
    /\ \E t \in Tables :
          \E aligns \in [DOMAIN t.headers -> Align] : FromTable(t, aligns)

Return(r, name, kw) ==
    /\ flavor' = r.flavor
    /\ styler' = r.styler
    /\ cache' = r.cache
    /\ value_matrix' = r.value_matrix
    /\ log' = r.log
    /\ op' = name
    /\ kwargs' = kw
    /\ pre' = [flavor |-> flavor, done |-> cache.done]
    /\ prev' = [op |-> op, text |-> IF op = "write_table" THEN Text(log) ELSE <<>>]
    /\ UNCHANGED <<table_name, indent_level, margin, is_write_null_line_after_table,
                   headers, column_dp_list>>

\* A call of write_table.
WriteTable ==
    \E kw \in KwargsSet :
        \E r \in {write_table(Self, kw)} : Return(r, "write_table", kw)

\* A call of _write_table_iter on the rows in chunks of n.
WriteTableIter ==
    \E n \in 1..MaxChunk :
        \E r \in {write_table_iter(Self, NoKwargs, Chunks(value_matrix, n))} :
            Return(r, "write_table_iter", NoKwargs)

Next == WriteTable \/ WriteTableIter

Spec == Init /\ [][Next]_vars

\* The flavor resolver on every flavor value: a writer of an empty table is
\* constructed with any flavor and write_table is called with any flavor.
InitFlavor ==
    /\ \E kw \in AnyKwargs : Construct(kw)
    /\ table_name = None
    /\ indent_level = 0
    /\ margin = 1
    /\ is_write_null_line_after_table = FALSE
    /\ FromTable(EmptyTable, <<"LEFT">>)

WriteTableAnyFlavor ==
    \E kw \in AnyKwargs :
        \E r \in {write_table(Self, kw)} : Return(r, "write_table", kw)

NextFlavor == WriteTableAnyFlavor

SpecFlavor == InitFlavor /\ [][NextFlavor]_vars

\* ------------------------------------------------------------------ claims

Canonical == {"COMMON_MARK", "GFM", "KRAMDOWN"}

GithubSpellings ==
    { <<"g","i","t","h","u","b">>, <<"G","i","t","H","u","b">>,
      <<"G","I","T","H","U","B">> }
JekyllSpellings == { <<"j","e","k","y","l","l">>, <<"J","e","k","y","l","l">> }
CommonMarkSpellings ==
    { <<"c","o","m","m","o","n","m","a","r","k">>,
      <<"C","o","m","m","o","n","M","a","r","k">> }

\* A generated string that spells gfm: "gFm" with nothing but spaces around it.
SpellsGfm(s) ==
    \E a, b \in 0..Len(s) : s = Repeat(" ", a) \o <<"g","F","m">> \o Repeat(" ", b)

\* The strings of the model that name no flavor.
Gibberish == { <<"x","y","z","z","y">> } \cup {s \in ShortStrings : ~SpellsGfm(s)}

\* The positions in a log of the lines a statement wrote, and of an event.
LinesOf(l, stage) == {i \in DOMAIN l : l[i].ev = "line" /\ l[i].a = stage}
EventsOf(l, e) == {i \in DOMAIN l : l[i].ev = e}
AllLines(l) == {i \in DOMAIN l : l[i].ev = "line"}

CountBars(s) == Cardinality({i \in DOMAIN s : s[i] = "|"})

\* The flavor the keyword arguments of the writer's calls stand for, by the
\* alias table of the documentation.
AliasTable(v) ==
    CASE v = StrValue(<<"g","i","t","h","u","b">>) -> "GFM"
      [] v = StrValue(<<"J","e","k","y","l","l">>) -> "KRAMDOWN"
      [] v = EnumValue("JEKYLL") -> "KRAMDOWN"
      [] v = StrValue(<<"C","o","m","m","o","n","M","a","r","k">>) -> "COMMON_MARK"

\* The flavor active for the last call: the override, or the flavor before it.
ActiveFlavor == IF kwargs.has THEN AliasTable(kwargs.flavor) ELSE pre.flavor

\* The last call was write_table on table data that is not empty.
Rendered == op = "write_table" /\ value_matrix # <<>>

\* C1: normalize_md_flavor returns a canonical flavor for every value: GFM for
\* github/GitHub/GITHUB, KRAMDOWN for jekyll/Jekyll, COMMON_MARK for
\* commonmark/CommonMark, COMMON_MARK for a string that names no flavor and for
\* None or an absent flavor; never GITHUB or JEKYLL.
C1_ResolverCanonical ==
    /\ flavor \in Canonical
    /\ (op = "init" /\ ~kwargs.has) => flavor = "COMMON_MARK"
    /\ kwargs.has =>
          LET v == kwargs.flavor
          IN /\ (v.kind = "str" /\ v.text \in GithubSpellings) => flavor = "GFM"
             /\ (v.kind = "str" /\ v.text \in JekyllSpellings) => flavor = "KRAMDOWN"
             /\ (v.kind = "str" /\ v.text \in CommonMarkSpellings)
                    => flavor = "COMMON_MARK"
             /\ (v.kind = "str" /\ v.text \in Gibberish) => flavor = "COMMON_MARK"
             /\ v.kind = "none" => flavor = "COMMON_MARK"
             /\ (v.kind = "enum" /\ v.member \in {"GITHUB", "GFM"}) => flavor = "GFM"
             /\ (v.kind = "enum" /\ v.member \in {"JEKYLL", "KRAMDOWN"})
                    => flavor = "KRAMDOWN"

\* A Kramdown writer is given a string that names no flavor and falls back.
C1_Witness ==
    /\ op = "write_table"
    /\ kwargs = FlavorKwarg(StrValue(<<"x","y","z","z","y">>))
    /\ pre.flavor = "KRAMDOWN"
    /\ flavor = "COMMON_MARK"

\* C2: write_table on zero rows writes nothing, whatever the flavor, the name
\* and the trailing-blank-line flag, and returns.
C2_EmptyDataNoOutput ==
    (op = "write_table" /\ value_matrix = <<>>) =>
        /\ AllLines(log) = {}
        /\ log # <<>>
        /\ log[Len(log)] = Ev("done", "empty")

\* A Kramdown writer with a title and the trailing-blank-line flag set is given
\* zero rows.
C2_Witness ==
    /\ op = "write_table"
    /\ value_matrix = <<>>
    /\ flavor = "KRAMDOWN"
    /\ ~is_null_string(table_name)
    /\ is_write_null_line_after_table
    /\ Text(log) = <<>>

\* No bare bar: every "|" of the text has a backslash right before it.
NoBareBar(c) == \A i \in DOMAIN c : c[i] = "|" => (i > 1 /\ c[i - 1] = "\\")

\* The text with every backslash that stands right before a "|" taken out.
RECURSIVE Unescape(_)
Unescape(c) ==
    IF c = <<>> THEN <<>>
    ELSE IF Len(c) >= 2 /\ c[1] = "\\" /\ c[2] = "|"
         THEN <<"|">> \o Unescape(SubSeq(c, 3, Len(c)))
         ELSE <<Head(c)>> \o Unescape(Tail(c))

\* A rendered cell c of column j against the value it renders: it is the
\* formatter's output with every bar escaped, so it has no bare bar, and apart
\* from the backslashes it is as long as the formatter's output.
CellEscaped(c, j, value_dp) ==
    LET raw == format_item(column_dp_list[j], value_dp)
    IN /\ NoBareBar(c)
       /\ Unescape(c) = raw
       /\ Len(c) = Len(raw) + CountBars(raw)
       /\ Len(c) - CountBars(c) >= column_dp_list[j].padding_len + 2 * margin
       /\ (Len(value_dp.text) <= column_dp_list[j].padding_len
              => Len(c) - CountBars(c) = column_dp_list[j].padding_len + 2 * margin)
       /\ CountBars(raw) > 0 =>
              \E i \in 1..(Len(c) - 1) : c[i] = "\\" /\ c[i + 1] = "|"

\* C3: every rendered header cell and body cell is the formatter's output with
\* each "|" replaced by "\|": no bare bar is left, and the escaping comes after
\* the padding.
C3_CellsEscaped ==
    cache.done =>
        /\ \A j \in DOMAIN headers : CellEscaped(cache.headers[j], j, headers[j])
        /\ Len(cache.value_matrix) = Len(value_matrix)
        /\ \A i \in DOMAIN value_matrix : \A j \in DOMAIN value_matrix[i] :
               CellEscaped(cache.value_matrix[i][j], j, value_matrix[i][j])

\* A header with a bar and a body cell with two bars have been rendered.
C3_Witness ==
    /\ cache.done
    /\ \E j \in DOMAIN headers : CountBars(headers[j].text) = 1
                                 /\ CountBars(cache.headers[j]) = 1
    /\ \E i \in DOMAIN value_matrix : \E j \in DOMAIN value_matrix[i] :
           /\ CountBars(value_matrix[i][j].text) = 2
           /\ Len(cache.value_matrix[i][j]) = Len(value_matrix[i][j].text) + 2 + 2 * margin

\* The separator pattern of a column of padding length w: dashes, with a colon
\* at the right end for Right and at both ends for Center.
SeparatorChar(align, w, i) ==
    CASE align = "RIGHT" -> IF i = w THEN ":" ELSE "-"
      [] align = "CENTER" -> IF i \in {1, w} THEN ":" ELSE "-"
      [] OTHER -> "-"

\* The separator cell of column j: margin spaces, the pattern, margin spaces.
SeparatorCell(j) ==
    LET w == column_dp_list[j].padding_len
    IN [i \in 1..(w + 2 * margin) |->
           IF i <= margin \/ i > margin + w THEN " "
           ELSE SeparatorChar(column_dp_list[j].align, w, i - margin)]

\* C4: the header-separator cells are, one per column in column order, the
\* pattern of exactly padding-length characters (w dashes; w-1 dashes and a
\* colon; a colon, w-2 dashes and a colon) between two margins, with a dash in
\* every pattern; the separator row written is made of these cells.
C4_SeparatorCells ==
    /\ Len(get_header_row_separator_items) = Len(column_dp_list)
    /\ \A j \in DOMAIN column_dp_list :
          /\ column_dp_list[j].padding_len >= 3
          /\ get_header_row_separator_items[j] = SeparatorCell(j)
          /\ \E i \in DOMAIN SeparatorCell(j) : SeparatorCell(j)[i] = "-"
    /\ \A k \in LinesOf(log, "separator") :
          log[k].text =
              <<"|">> \o join([j \in DOMAIN column_dp_list |-> SeparatorCell(j)], <<"|">>)
              \o <<"|">>

\* A separator row for a Right and a Center column has been written with a margin.
C4_Witness ==
    /\ LinesOf(log, "separator") # {}
    /\ margin = 1
    /\ Len(column_dp_list) = 2
    /\ column_dp_list[1].align = "RIGHT"
    /\ column_dp_list[2].align = "CENTER"
    /\ column_dp_list[2].padding_len = 4

IsBlankAfter(t, i) == i < Len(t) /\ t[i + 1] = <<>>

BlankCount(t) == Cardinality({i \in DOMAIN t : t[i] = <<>>})

NonBlankLines(t) == SelectSeq(t, LAMBDA x : x # <<>>)

\* The table name is not blank: not None, not empty, not only whitespace.
NonBlankName ==
    ~table_name.null /\ \E i \in DOMAIN table_name.text : table_name.text[i] # " "

\* C5: write_table on data that is not empty writes a blank line right after
\* the title heading and right after the header-separator row exactly when the
\* flavor active for the call (the override, aliases collapsed) is Kramdown; a
\* Kramdown render after a CommonMark render of the same writer has the two
\* blank lines the first render lacked.
C5_KramdownBlankLines ==
    Rendered =>
        LET t == Text(log)
            st == Stages(log)
        IN /\ flavor = ActiveFlavor
           /\ \E i \in DOMAIN st : st[i] = "separator"
           /\ NonBlankName => \E i \in DOMAIN st : st[i] = "chapter"
           /\ \A i \in DOMAIN st :
                  st[i] \in {"chapter", "separator"} =>
                      (IsBlankAfter(t, i) <=> ActiveFlavor = "KRAMDOWN")
           /\ (prev.op = "write_table" /\ pre.flavor = "COMMON_MARK"
               /\ ActiveFlavor = "KRAMDOWN") =>
                  /\ BlankCount(t) = BlankCount(prev.text) + (IF NonBlankName THEN 2 ELSE 1)
                  /\ NonBlankLines(t) = NonBlankLines(prev.text)

\* A titled table is rendered with CommonMark and then with flavor Jekyll.
C5_Witness ==
    /\ Rendered
    /\ prev.op = "write_table"
    /\ pre.flavor = "COMMON_MARK"
    /\ kwargs = FlavorKwarg(StrValue(<<"J","e","k","y","l","l">>))
    /\ NonBlankName
    /\ BlankCount(prev.text) = 0
    /\ BlankCount(Text(log)) = 2

\* C6: two consecutive write_table calls with the same active flavor (the
\* data and the configuration do not change) write the same text.
C6_SameRenderTwice ==
    (op = "write_table" /\ prev.op = "write_table" /\ flavor = pre.flavor) =>
        Text(log) = prev.text

\* A Kramdown table rendered from the cache of the render before it.
C6_Witness ==
    /\ op = "write_table"
    /\ prev.op = "write_table"
    /\ flavor = pre.flavor
    /\ flavor = "KRAMDOWN"
    /\ pre.done
    /\ EventsOf(log, "preprocess") = {}
    /\ Len(Text(log)) >= 5
    /\ Text(log) = prev.text

\* C7: write_table clears the cache exactly when an override resolves to a
\* flavor other than the active one, before the flavor changes and before
\* anything is pre-processed or written; otherwise the cache and the flavor are
\* kept; what is rendered was pre-processed under the active flavor.
C7_CacheClearedOnSwitch ==
    /\ cache.done => cache.flavor = flavor
    /\ op = "write_table" =>
          LET switch == kwargs.has /\ AliasTable(kwargs.flavor) # pre.flavor
              cleared == EventsOf(log, "clear_preprocess")
              changed == EventsOf(log, "set_flavor")
              derived == EventsOf(log, "preprocess")
          IN /\ (cleared # {}) <=> switch
             /\ switch =>
                   /\ Cardinality(cleared) = 1 /\ Cardinality(changed) = 1
                   /\ \A c \in cleared, f \in changed :
                          /\ c < f
                          /\ log[f].a = AliasTable(kwargs.flavor)
                          /\ \A k \in derived \cup AllLines(log) : f < k
                   /\ flavor = AliasTable(kwargs.flavor)
                   /\ value_matrix # <<>> => derived # {}
             /\ ~switch =>
                   /\ changed = {}
                   /\ flavor = pre.flavor
                   /\ pre.done => (cache.done /\ derived = {})
             /\ AllLines(log) # {} => (cache.done /\ cache.flavor = flavor)

\* A writer with a CommonMark cache renders with an override that switches it
\* to Kramdown.
C7_Witness ==
    /\ op = "write_table"
    /\ pre.done
    /\ pre.flavor = "COMMON_MARK"
    /\ kwargs.has
    /\ flavor = "KRAMDOWN"
    /\ EventsOf(log, "clear_preprocess") # {}
    /\ AllLines(log) # {}
    /\ cache.flavor = "KRAMDOWN"

\* The statements that write a render's lines, in the order of the write
\* sequence.
ExpectedStages ==
    (IF NonBlankName
     THEN <<"chapter">> \o (IF flavor = "KRAMDOWN" THEN <<"chapter_blank">> ELSE <<>>)
     ELSE <<>>)
    \o <<"header", "separator">>
    \o (IF flavor = "KRAMDOWN" THEN <<"header_blank">> ELSE <<>>)
    \o [i \in 1..Len(value_matrix) |-> "row"]
    \o (IF is_write_null_line_after_table THEN <<"null_line">> ELSE <<>>)

\* A row of cells between column delimiters.
RowText(cells) == <<"|">> \o join(cells, <<"|">>) \o <<"|">>

\* C8: write_table on data that is not empty writes title (if the name is not
\* blank), header row, header-separator row, Kramdown blank line, the body rows
\* in input order with nothing between them, and one trailing blank line if the
\* flag is set, in this order and nothing else, and returns.
C8_StrictOrder ==
    Rendered =>
        LET st == Stages(log)
            t == Text(log)
        IN /\ st = ExpectedStages
           /\ \A i \in DOMAIN st :
                  /\ st[i] \in {"chapter_blank", "header_blank", "null_line"} => t[i] = <<>>
                  /\ st[i] = "header" =>
                         t[i] = RowText([j \in DOMAIN headers |->
                                            to_header_item(column_dp_list[j], headers[j])])
           /\ LET rows == SelectSeq(log, LAMBDA e : e.ev = "line" /\ e.a = "row")
              IN \A i \in DOMAIN value_matrix :
                     rows[i].text =
                         RowText([j \in DOMAIN value_matrix[i] |->
                                     to_row_item(column_dp_list[j], value_matrix[i][j])])
           /\ log[Len(log)] = Ev("done", "written")
           /\ Cardinality(EventsOf(log, "done")) = 1

\* A titled Kramdown table of three rows is written with the trailing blank line.
C8_Witness ==
    /\ Rendered
    /\ flavor = "KRAMDOWN"
    /\ NonBlankName
    /\ is_write_null_line_after_table
    /\ Len(value_matrix) = 3
    /\ Len(Stages(log)) = 9

\* The heading line: indent level + 1 '#', a space, the table name.
Heading ==
    [i \in 1..(indent_level + 2 + Len(table_name.text)) |->
        IF i <= indent_level + 1 THEN "#"
        ELSE IF i = indent_level + 2 THEN " "
        ELSE table_name.text[i - indent_level - 2]]

\* Every heading line is the heading, and every header row has a heading line
\* before it with no other header row in between, when the name is not blank.
HeadingWellPlaced ==
    /\ \A k \in LinesOf(log, "chapter") : log[k].text = Heading
    /\ ~NonBlankName => LinesOf(log, "chapter") = {}
    /\ NonBlankName =>
          \A h \in LinesOf(log, "header") :
              \E c \in LinesOf(log, "chapter") :
                  c < h /\ \A g \in LinesOf(log, "header") : ~(c < g /\ g < h)

C10_StylerMatchesFlavor ==
    op = "write_table" =>
        /\ styler \in {"GFMarkdownStyler", "MarkdownStyler"}
        /\ styler = "GFMarkdownStyler" <=> flavor = "GFM"
        /\ flavor \in Canonical
        /\ flavor = ActiveFlavor

\* A Kramdown writer of an empty table is switched to GFM by the alias github.
C10_Witness ==
    /\ op = "write_table"
    /\ value_matrix = <<>>
    /\ kwargs = FlavorKwarg(StrValue(<<"g","i","t","h","u","b">>))
    /\ pre.flavor = "KRAMDOWN"
    /\ flavor = "GFM"
    /\ styler = "GFMarkdownStyler"

====
